---- MODULE Spec2Model ----
(***************************************************************************)
(* aws-rds-maxcon-prometheus-exporter: the max_connections resolution      *)
(* (getMaxConnections, getDefaultMaxConnections and their copies in        *)
(* pkg/postgresql), the catalog walk of getRDSInstances and the polling    *)
(* cycle of main/snapshot with concurrent scrapes of /metrics.             *)
(*                                                                         *)
(* Go strings that the code inspects (raw parameter values, the            *)
(* max_connections label) are sequences of one-character strings, so that  *)
(* regexp matching, strconv.Atoi and strconv.Itoa are computed character   *)
(* by character.  Opaque strings (identifiers, instance classes, engine    *)
(* and parameter group names) are TLA+ strings.                            *)
(***************************************************************************)
EXTENDS Integers, Sequences, FiniteSets, TLC

----------------------------------------------------------------------------
(* Bounds of the model *)

\* longest catalog returned by DescribeDBInstances
MaxInstances == 2

\* longest all-digit raw value enumerated exhaustively
MaxLiteralLen == 2

\* cap on the number of snapshot executions in progress that are tracked
MaxRunning == 2

----------------------------------------------------------------------------
(* Characters and strconv *)

Digits == {"0", "1", "2", "3", "4", "5", "6", "7", "8", "9"}

DigitVal ==
    "0" :> 0 @@ "1" :> 1 @@ "2" :> 2 @@ "3" :> 3 @@ "4" :> 4 @@
    "5" :> 5 @@ "6" :> 6 @@ "7" :> 7 @@ "8" :> 8 @@ "9" :> 9

DigitChar ==
    0 :> "0" @@ 1 :> "1" @@ 2 :> "2" @@ 3 :> "3" @@ 4 :> "4" @@
    5 :> "5" @@ 6 :> "6" @@ 7 :> "7" @@ 8 :> "8" @@ 9 :> "9"

\* Largest value of Go's int.  The width of int is that of the target
\* (32 bits on 386/arm, 64 bits on amd64/arm64); the 32-bit width is the one
\* modelled, strconv.Atoi clamps in the same way at either width.
MaxInt == 2147483647

\* strconv.Atoi on a string of decimal digits: val is the value returned,
\* err tells whether a range error is returned with it (the value is then
\* the largest int).
RECURSIVE AtoiFrom(_, _, _)
AtoiFrom(s, i, acc) ==
    IF i > Len(s) THEN [val |-> acc, err |-> FALSE]
    ELSE LET d == DigitVal[s[i]] IN
         IF acc > (MaxInt - d) \div 10
         THEN [val |-> MaxInt, err |-> TRUE]
         ELSE AtoiFrom(s, i + 1, acc * 10 + d)

Atoi(s) ==
    IF Len(s) = 0 \/ \E i \in 1..Len(s) : s[i] \notin Digits
    THEN [val |-> 0, err |-> TRUE]
    ELSE AtoiFrom(s, 1, 0)

\* strconv.Itoa
RECURSIVE ItoaNat(_)
ItoaNat(n) ==
    IF n < 10 THEN <<DigitChar[n]>>
    ELSE Append(ItoaNat(n \div 10), DigitChar[n % 10])

Itoa(n) == IF n < 0 THEN <<"-">> \o ItoaNat(0 - n) ELSE ItoaNat(n)

----------------------------------------------------------------------------
(* The two regular expressions of getMaxConnections *)

HasPrefixAt(s, i, p) ==
    /\ i + Len(p) - 1 <= Len(s)
    /\ \A k \in 1..Len(p) : s[i + k - 1] = p[k]

\* index just after the longest run of digits that starts at i
RECURSIVE DigitRunEnd(_, _)
DigitRunEnd(s, i) ==
    IF i <= Len(s) /\ s[i] \in Digits THEN DigitRunEnd(s, i + 1) ELSE i

LeastPrefix ==
    <<"L", "E", "A", "S", "T", "(", "{", "D", "B", "I", "n", "s", "t", "a", "n", "c", "e", "C", "l", "a", "s", "s", "M", "e", "m", "o", "r", "y", "/">>

\* `(LEAST)\({(DBInstanceClassMemory)/(\d+)},(\d+)\)` matched at position i
defaultRepMatchAt(s, i) ==
    LET a == i + Len(LeastPrefix)
        b == DigitRunEnd(s, a)
        c == b + 2
        d == DigitRunEnd(s, c)
    IN  /\ HasPrefixAt(s, i, LeastPrefix)
        /\ b > a
        /\ HasPrefixAt(s, b, <<"}", ",">>)
        /\ d > c
        /\ HasPrefixAt(s, d, <<")">>)

\* defaultRep.MatchString: the expression is not anchored
defaultRepMatchString(s) == \E i \in 1..Len(s) : defaultRepMatchAt(s, i)

\* setRep.MatchString for `(\d+)`
setRepMatchString(s) == \E i \in 1..Len(s) : s[i] \in Digits

\* setRep.FindAllStringSubmatch(s, -1)[0][0]: the leftmost, longest digit run
setRepFirstMatch(s) ==
    LET i == CHOOSE k \in 1..Len(s) :
                 /\ s[k] \in Digits
                 /\ \A j \in 1..(k - 1) : s[j] \notin Digits
    IN  SubSeq(s, i, DigitRunEnd(s, i) - 1)

----------------------------------------------------------------------------
(* The limit table and the resolution, src/main.go *)

auroraPostgresMaxcon ==
    "db.r4.large"      :> 1600 @@
    "db.r4.xlarge"     :> 3200 @@
    "db.r4.2xlarge"    :> 5000 @@
    "db.r4.4xlarge"    :> 5000 @@
    "db.r4.8xlarge"    :> 5000 @@
    "db.r4.16xlarge"   :> 5000 @@
    "db.r5.large"      :> 1800 @@
    "db.r5.xlarge"     :> 3600 @@
    "db.r5.2xlarge"    :> 5000 @@
    "db.r5.4xlarge"    :> 5000 @@
    "db.r5.8xlarge"    :> 5000 @@
    "db.r5.12xlarge"   :> 5000 @@
    "db.r5.16xlarge"   :> 5000 @@
    "db.r5.24xlarge"   :> 5000 @@
    "db.m4.large"      :> 900 @@
    "db.m4.xlarge"     :> 1800 @@
    "db.m4.2xlarge"    :> 3600 @@
    "db.m4.4xlarge"    :> 5000 @@
    "db.m4.10xlarge"   :> 5000 @@
    "db.m4.16xlarge"   :> 5000 @@
    "db.m5.large"      :> 900 @@
    "db.m5.xlarge"     :> 1800 @@
    "db.m5.2xlarge"    :> 3600 @@
    "db.m5.4xlarge"    :> 5000 @@
    "db.m5.8xlarge"    :> 5000 @@
    "db.m5.12xlarge"   :> 5000 @@
    "db.m5.16xlarge"   :> 5000 @@
    "db.m5.24xlarge"   :> 5000 @@
    "db.t2.micro"      :> 125 @@
    "db.t2.small"      :> 250 @@
    "db.t2.medium"     :> 450 @@
    "db.t2.large"      :> 900 @@
    "db.t2.xlarge"     :> 1800 @@
    "db.t2.2xlarge"    :> 3600 @@
    "db.t3.micro"      :> 125 @@
    "db.t3.small"      :> 250 @@
    "db.t3.medium"     :> 450 @@
    "db.t3.large"      :> 900 @@
    "db.t3.xlarge"     :> 1800 @@
    "db.t3.2xlarge"    :> 3600

\* Go map read: the zero value for a key that is absent
MapGet(m, k) == IF k \in DOMAIN m THEN m[k] ELSE 0

\* getDefaultMaxConnections with the entry of db.r5.2xlarge continuing the
\* doubling of db.r5.large and db.r5.xlarge past the cap
getDefaultMaxConnections_uncappedEntry(instanceClass) ==
    LET m   == [auroraPostgresMaxcon EXCEPT !["db.r5.2xlarge"] = 7200]
        ret == MapGet(m, instanceClass) IN
    IF ret = 0 THEN [ret |-> 0, err |-> TRUE]
    ELSE [ret |-> ret, err |-> FALSE]

getDefaultMaxConnections(instanceClass) ==
    LET ret == MapGet(auroraPostgresMaxcon, instanceClass) IN
    IF ret = 0 THEN [ret |-> 0, err |-> TRUE]
    ELSE [ret |-> ret, err |-> FALSE]

\* getMaxConnections with the two branches in the other order: the first
\* digit run is taken before the formula is looked for
getMaxConnections_literalFirst(rawMaxConnections, instanceClass) ==
    IF setRepMatchString(rawMaxConnections)
    THEN [ret |-> Atoi(setRepFirstMatch(rawMaxConnections)).val, err |-> FALSE]
    ELSE IF defaultRepMatchString(rawMaxConnections)
    THEN LET r == getDefaultMaxConnections(instanceClass) IN
         IF r.err THEN [ret |-> 0, err |-> TRUE]
         ELSE [ret |-> r.ret, err |-> FALSE]
    ELSE [ret |-> 0, err |-> FALSE]

\* getMaxConnections that consults the table for every raw value that holds
\* a number, and parses the number only for a class the table lacks
getMaxConnections_tableFirst(rawMaxConnections, instanceClass) ==
    IF defaultRepMatchString(rawMaxConnections)
    THEN LET r == getDefaultMaxConnections(instanceClass) IN
         IF r.err THEN [ret |-> 0, err |-> TRUE]
         ELSE [ret |-> r.ret, err |-> FALSE]
    ELSE IF setRepMatchString(rawMaxConnections)
    THEN LET r == getDefaultMaxConnections(instanceClass) IN
         IF r.err
         THEN [ret |-> Atoi(setRepFirstMatch(rawMaxConnections)).val,
               err |-> FALSE]
         ELSE [ret |-> r.ret, err |-> FALSE]
    ELSE [ret |-> 0, err |-> FALSE]

getMaxConnections(rawMaxConnections, instanceClass) ==
    IF defaultRepMatchString(rawMaxConnections)
    THEN LET r == getDefaultMaxConnections(instanceClass) IN
         IF r.err THEN [ret |-> 0, err |-> TRUE]
         ELSE [ret |-> r.ret, err |-> FALSE]
    ELSE IF setRepMatchString(rawMaxConnections)
    THEN [ret |-> Atoi(setRepFirstMatch(rawMaxConnections)).val, err |-> FALSE]
    ELSE [ret |-> 0, err |-> FALSE]

\* memory size written next to each table entry, in quarters of a GB
MemoryQuarterGB ==
    "db.r4.large"      :> 61 @@
    "db.r4.xlarge"     :> 122 @@
    "db.r4.2xlarge"    :> 244 @@
    "db.r4.4xlarge"    :> 488 @@
    "db.r4.8xlarge"    :> 976 @@
    "db.r4.16xlarge"   :> 1952 @@
    "db.r5.large"      :> 64 @@
    "db.r5.xlarge"     :> 128 @@
    "db.r5.2xlarge"    :> 256 @@
    "db.r5.4xlarge"    :> 512 @@
    "db.r5.8xlarge"    :> 1024 @@
    "db.r5.12xlarge"   :> 1536 @@
    "db.r5.16xlarge"   :> 1536 @@
    "db.r5.24xlarge"   :> 3072 @@
    "db.m4.large"      :> 32 @@
    "db.m4.xlarge"     :> 64 @@
    "db.m4.2xlarge"    :> 128 @@
    "db.m4.4xlarge"    :> 256 @@
    "db.m4.10xlarge"   :> 640 @@
    "db.m4.16xlarge"   :> 1024 @@
    "db.m5.large"      :> 32 @@
    "db.m5.xlarge"     :> 64 @@
    "db.m5.2xlarge"    :> 128 @@
    "db.m5.4xlarge"    :> 256 @@
    "db.m5.8xlarge"    :> 512 @@
    "db.m5.12xlarge"   :> 768 @@
    "db.m5.16xlarge"   :> 1024 @@
    "db.m5.24xlarge"   :> 1536 @@
    "db.t2.micro"      :> 4 @@
    "db.t2.small"      :> 8 @@
    "db.t2.medium"     :> 16 @@
    "db.t2.large"      :> 32 @@
    "db.t2.xlarge"     :> 64 @@
    "db.t2.2xlarge"    :> 128 @@
    "db.t3.micro"      :> 4 @@
    "db.t3.small"      :> 8 @@
    "db.t3.medium"     :> 16 @@
    "db.t3.large"      :> 32 @@
    "db.t3.xlarge"     :> 64 @@
    "db.t3.2xlarge"    :> 128

----------------------------------------------------------------------------
(* The copy of the resolution in src/pkg/postgresql/postgresql.go *)

pkgAuroraPostgresMaxcon ==
    "db.r4.large"      :> 1600 @@
    "db.r4.xlarge"     :> 3200 @@
    "db.r4.2xlarge"    :> 5000 @@
    "db.r4.4xlarge"    :> 5000 @@
    "db.r4.8xlarge"    :> 5000 @@
    "db.r4.16xlarge"   :> 5000 @@
    "db.r5.large"      :> 1800 @@
    "db.r5.xlarge"     :> 3600 @@
    "db.r5.2xlarge"    :> 5000 @@
    "db.r5.4xlarge"    :> 5000 @@
    "db.r5.8xlarge"    :> 5000 @@
    "db.r5.12xlarge"   :> 5000 @@
    "db.r5.16xlarge"   :> 5000 @@
    "db.r5.24xlarge"   :> 5000 @@
    "db.m4.large"      :> 900 @@
    "db.m4.xlarge"     :> 1800 @@
    "db.m4.2xlarge"    :> 3600 @@
    "db.m4.4xlarge"    :> 5000 @@
    "db.m4.10xlarge"   :> 5000 @@
    "db.m4.16xlarge"   :> 5000 @@
    "db.m5.large"      :> 900 @@
    "db.m5.xlarge"     :> 1800 @@
    "db.m5.2xlarge"    :> 3600 @@
    "db.m5.4xlarge"    :> 5000 @@
    "db.m5.8xlarge"    :> 5000 @@
    "db.m5.12xlarge"   :> 5000 @@
    "db.m5.16xlarge"   :> 5000 @@
    "db.m5.24xlarge"   :> 5000 @@
    "db.t2.micro"      :> 125 @@
    "db.t2.small"      :> 250 @@
    "db.t2.medium"     :> 450 @@
    "db.t2.large"      :> 900 @@
    "db.t2.xlarge"     :> 1800 @@
    "db.t2.2xlarge"    :> 3600 @@
    "db.t3.micro"      :> 125 @@
    "db.t3.small"      :> 250 @@
    "db.t3.medium"     :> 450 @@
    "db.t3.large"      :> 900 @@
    "db.t3.xlarge"     :> 1800 @@
    "db.t3.2xlarge"    :> 3600

GetDefaultPostgresMaxConnections(instanceClass) ==
    LET ret == MapGet(pkgAuroraPostgresMaxcon, instanceClass) IN
    IF ret = 0 THEN [ret |-> 0, err |-> TRUE]
    ELSE [ret |-> ret, err |-> FALSE]

GetPostgresMaxConnections(rawMaxConnections, instanceClass) ==
    IF defaultRepMatchString(rawMaxConnections)
    THEN LET r == GetDefaultPostgresMaxConnections(instanceClass) IN
         IF r.err THEN [ret |-> 0, err |-> TRUE]
         ELSE [ret |-> r.ret, err |-> FALSE]
    ELSE IF setRepMatchString(rawMaxConnections)
    THEN [ret |-> Atoi(setRepFirstMatch(rawMaxConnections)).val, err |-> FALSE]
    ELSE [ret |-> 0, err |-> FALSE]

\* memory size written next to each entry of the copy, in quarters of a GB
pkgMemoryQuarterGB ==
    "db.r4.large"      :> 61 @@
    "db.r4.xlarge"     :> 122 @@
    "db.r4.2xlarge"    :> 244 @@
    "db.r4.4xlarge"    :> 488 @@
    "db.r4.8xlarge"    :> 976 @@
    "db.r4.16xlarge"   :> 1952 @@
    "db.r5.large"      :> 64 @@
    "db.r5.xlarge"     :> 128 @@
    "db.r5.2xlarge"    :> 256 @@
    "db.r5.4xlarge"    :> 512 @@
    "db.r5.8xlarge"    :> 1024 @@
    "db.r5.12xlarge"   :> 1536 @@
    "db.r5.16xlarge"   :> 1536 @@
    "db.r5.24xlarge"   :> 3072 @@
    "db.m4.large"      :> 32 @@
    "db.m4.xlarge"     :> 64 @@
    "db.m4.2xlarge"    :> 128 @@
    "db.m4.4xlarge"    :> 256 @@
    "db.m4.10xlarge"   :> 640 @@
    "db.m4.16xlarge"   :> 1024 @@
    "db.m5.large"      :> 32 @@
    "db.m5.xlarge"     :> 64 @@
    "db.m5.2xlarge"    :> 128 @@
    "db.m5.4xlarge"    :> 256 @@
    "db.m5.8xlarge"    :> 512 @@
    "db.m5.12xlarge"   :> 768 @@
    "db.m5.16xlarge"   :> 1024 @@
    "db.m5.24xlarge"   :> 1536 @@
    "db.t2.micro"      :> 4 @@
    "db.t2.small"      :> 8 @@
    "db.t2.medium"     :> 16 @@
    "db.t2.large"      :> 32 @@
    "db.t2.xlarge"     :> 64 @@
    "db.t2.2xlarge"    :> 128 @@
    "db.t3.micro"      :> 4 @@
    "db.t3.small"      :> 8 @@
    "db.t3.medium"     :> 16 @@
    "db.t3.large"      :> 32 @@
    "db.t3.xlarge"     :> 64 @@
    "db.t3.2xlarge"    :> 128

----------------------------------------------------------------------------
(* The RDS API as the exporter sees it *)

LeastFormula ==
    <<"L", "E", "A", "S", "T", "(", "{", "D", "B", "I", "n", "s", "t", "a", "n", "c", "e", "C", "l", "a", "s", "s", "M", "e", "m", "o", "r", "y", "/", "9", "5", "3", "1", "3", "9", "2", "}", ",", "5", "0", "0", "0", ")">>

MySQLFormula ==
    <<"{", "D", "B", "I", "n", "s", "t", "a", "n", "c", "e", "C", "l", "a", "s", "s", "M", "e", "m", "o", "r", "y", "/", "1", "2", "5", "8", "2", "8", "8", "0", "}">>

\* DescribeDBParameters: the pages returned for each parameter group
DBParameters ==
    "default.postgres12" :>
        << <<[ParameterName |-> "shared_buffers",
              ParameterValue |-> <<"{", "D", "B", "I", "n", "s", "t", "a", "n", "c", "e", "C", "l", "a", "s", "s", "M", "e", "m", "o", "r", "y", "/", "3", "2", "7", "6", "8", "}">>]>>,
           <<[ParameterName |-> "max_connections",
              ParameterValue |-> LeastFormula]>> >> @@
    "custom-postgres12" :>
        << <<[ParameterName |-> "max_connections",
              ParameterValue |-> <<"3", "3", "0", "0">>],
             [ParameterName |-> "work_mem",
              ParameterValue |-> <<"4", "0", "9", "6">>]>> >> @@
    "zero-postgres12" :>
        << <<[ParameterName |-> "max_connections",
              ParameterValue |-> <<"0">>]>> >> @@
    "default.mysql8.0" :>
        << <<[ParameterName |-> "max_connections",
              ParameterValue |-> MySQLFormula]>> >>

\* the instances DescribeDBInstances can return, without their identifier
Shapes ==
    { [DBInstanceClass |-> "db.r5.large", Engine |-> "postgres",
       DBParameterGroups |-> <<"default.postgres12">>],
      [DBInstanceClass |-> "db.unknown.size", Engine |-> "postgres",
       DBParameterGroups |-> <<"default.postgres12">>],
      [DBInstanceClass |-> "db.r5.xlarge", Engine |-> "postgres",
       DBParameterGroups |-> <<"custom-postgres12">>],
      [DBInstanceClass |-> "db.r5.large", Engine |-> "postgres",
       DBParameterGroups |-> <<"zero-postgres12">>],
      [DBInstanceClass |-> "db.r5.large", Engine |-> "mysql",
       DBParameterGroups |-> <<"default.mysql8.0">>],
      [DBInstanceClass |-> "db.r5.large", Engine |-> "postgres",
       DBParameterGroups |-> <<>>] }

InstanceIds == <<"db-1", "db-2", "db-3", "db-4">>

\* the outputs of DescribeDBInstances: identifiers are unique in a catalog
Catalogs ==
    UNION { { [i \in 1..n |->
                 [DBInstanceIdentifier |-> InstanceIds[i],
                  DBInstanceClass      |-> f[i].DBInstanceClass,
                  Engine               |-> f[i].Engine,
                  DBParameterGroups    |-> f[i].DBParameterGroups]] :
              f \in [1..n -> Shapes] } : n \in 0..MaxInstances }

----------------------------------------------------------------------------
(* getRawMaxConnections and getRDSInstances, src/main.go *)

\* the second loop of getRawMaxConnections over one page: the last
\* max_connections parameter wins
RECURSIVE ScanParameters(_, _, _)
ScanParameters(Parameters, k, raw) ==
    IF k > Len(Parameters) THEN raw
    ELSE ScanParameters(Parameters, k + 1,
             IF Parameters[k].ParameterName = "max_connections"
             THEN Parameters[k].ParameterValue ELSE raw)

RECURSIVE ScanPages(_, _, _)
ScanPages(ParameterInfos, k, raw) ==
    IF k > Len(ParameterInfos) THEN raw
    ELSE ScanPages(ParameterInfos, k + 1,
                   ScanParameters(ParameterInfos[k], 1, raw))

\* all pages are fetched, then scanned; "" when the parameter is absent
getRawMaxConnections(parameterGroupName) ==
    ScanPages(DBParameters[parameterGroupName], 1, <<>>)

\* the inner loop of getRDSInstances over the parameter groups of one
\* instance: rawMaxConnections is assigned once per group
RECURSIVE ScanGroups(_, _, _)
ScanGroups(DBParameterGroups, k, rawMaxConnections) ==
    IF k > Len(DBParameterGroups) THEN rawMaxConnections
    ELSE ScanGroups(DBParameterGroups, k + 1,
                    getRawMaxConnections(DBParameterGroups[k]))

\* the outer loop of getRDSInstances from instance i on; rawMaxConnections
\* is declared before the loop and lives across its iterations
RECURSIVE RDSInfosFrom(_, _, _)
RDSInfosFrom(DBInstances, i, rawMaxConnections) ==
    IF i > Len(DBInstances) THEN <<>>
    ELSE LET raw == ScanGroups(DBInstances[i].DBParameterGroups, 1,
                               rawMaxConnections)
             r   == getMaxConnections(raw, DBInstances[i].DBInstanceClass)
         IN  <<[DBInstanceIdentifier |-> DBInstances[i].DBInstanceIdentifier,
                DBInstanceClass      |-> DBInstances[i].DBInstanceClass,
                MaxConnections       |-> Itoa(r.ret)]>>
             \o RDSInfosFrom(DBInstances, i + 1, raw)

getRDSInstances(DBInstances) == RDSInfosFrom(DBInstances, 1, <<>>)

----------------------------------------------------------------------------
(* snapshot and main, src/main.go *)

\* snapshot without the call of maxcon.Reset()
Reset_keep(metrics) == metrics

\* maxcon.Reset()
Reset(metrics) == {}

\* the test of the publish loop comparing with the empty string
IsZeroMaxConnections_empty(InstanceInfo) == InstanceInfo.MaxConnections = <<>>

\* the test at the head of the publish loop
IsZeroMaxConnections(InstanceInfo) == InstanceInfo.MaxConnections = <<"0">>

\* prometheus.Labels built from one RDSInfo
Labels(InstanceInfo) ==
    [instance_identifier |-> InstanceInfo.DBInstanceIdentifier,
     instance_class      |-> InstanceInfo.DBInstanceClass,
     max_connections     |-> InstanceInfo.MaxConnections]

VARIABLES
    alive,         \* the process has not exited through log.Fatal
    tickBuffered,  \* ticker.C holds a tick (the channel has capacity 1)
    running,       \* executions of snapshot in progress
    pc,            \* position of the polling goroutine
    catalog,       \* what DescribeDBInstances returned to the latest cycle
    InstanceInfos, \* the local of snapshot
    idx,           \* position of the publish loop in InstanceInfos
    maxcon,        \* the label sets of the gauge vector
    lastComplete,  \* maxcon as the latest returned snapshot left it
    unchanged,     \* the latest catalog equals that of the cycle before
    scraped,       \* <<response>> of the latest scrape since the latest Reset
    fn, rawIn, classIn, result  \* a direct call of a resolution function

vars == <<alive, tickBuffered, running, pc, catalog, InstanceInfos, idx,
          maxcon, lastComplete, unchanged, scraped,
          fn, rawIn, classIn, result>>

exporterVars == <<alive, tickBuffered, running, pc, catalog, InstanceInfos,
                  idx, maxcon, lastComplete, unchanged, scraped>>

callVars == <<fn, rawIn, classIn, result>>

NoScrape == <<>>

InitExporter ==
    /\ alive = TRUE
    /\ tickBuffered = FALSE
    /\ running = 0
    /\ pc = "range"
    /\ catalog = <<>>
    /\ InstanceInfos = <<>>
    /\ idx = 1
    /\ maxcon = {}
    /\ lastComplete = {}
    /\ unchanged = FALSE
    /\ scraped = NoScrape

InitCall ==
    /\ fn = "none"
    /\ rawIn = <<>>
    /\ classIn = ""
    /\ result = [ret |-> 0, err |-> FALSE]

Init == InitExporter /\ InitCall

\* the runtime delivers a tick; it is dropped when ticker.C is full
Tick ==
    /\ alive
    /\ tickBuffered' = TRUE
    /\ UNCHANGED <<alive, running, pc, catalog, InstanceInfos, idx, maxcon,
                   lastComplete, unchanged, scraped>>
    /\ UNCHANGED callVars

\* the loop body started as `go snapshot()`: the loop is back at ticker.C
\* at once
LoopAtRange_spawned == TRUE

\* the polling goroutine is blocked in `for range ticker.C`
LoopAtRange == pc = "range"

\* the loop receives a tick and calls snapshot, which resets the vector
Snapshot_Reset ==
    /\ alive
    /\ tickBuffered
    /\ LoopAtRange
    /\ running < MaxRunning
    /\ tickBuffered' = FALSE
    /\ running' = running + 1
    /\ maxcon' = Reset(maxcon)
    /\ pc' = "fetch"
    /\ scraped' = NoScrape
    /\ UNCHANGED <<alive, catalog, InstanceInfos, idx, lastComplete, unchanged>>
    /\ UNCHANGED callVars

\* getRDSInstances succeeds
Snapshot_GetRDSInstances ==
    /\ alive
    /\ pc = "fetch"
    /\ \E DBInstances \in Catalogs :
         /\ catalog' = DBInstances
         /\ unchanged' = (DBInstances = catalog)
         /\ InstanceInfos' = getRDSInstances(DBInstances)
    /\ idx' = 1
    /\ pc' = "loop"
    /\ UNCHANGED <<alive, tickBuffered, running, maxcon, lastComplete, scraped>>
    /\ UNCHANGED callVars

\* DescribeDBInstances or DescribeDBParameters fails: snapshot returns the
\* error and the loop ends the process with log.Fatal
Snapshot_GetRDSInstancesFail ==
    /\ alive
    /\ pc = "fetch"
    /\ alive' = FALSE
    /\ UNCHANGED <<tickBuffered, running, pc, catalog, InstanceInfos, idx,
                   maxcon, lastComplete, unchanged, scraped>>
    /\ UNCHANGED callVars

\* one iteration of the publish loop
Snapshot_Publish ==
    /\ alive
    /\ pc = "loop"
    /\ idx <= Len(InstanceInfos)
    /\ IF IsZeroMaxConnections(InstanceInfos[idx])
       THEN /\ pc' = "return"
            /\ UNCHANGED <<maxcon, idx>>
       ELSE /\ maxcon' = maxcon \cup {Labels(InstanceInfos[idx])}
            /\ idx' = idx + 1
            /\ pc' = IF idx = Len(InstanceInfos) THEN "return" ELSE "loop"
    /\ UNCHANGED <<alive, tickBuffered, running, catalog, InstanceInfos,
                   lastComplete, unchanged, scraped>>
    /\ UNCHANGED callVars

\* the loop is over an empty list
Snapshot_LoopEmpty ==
    /\ alive
    /\ pc = "loop"
    /\ idx > Len(InstanceInfos)
    /\ pc' = "return"
    /\ UNCHANGED <<alive, tickBuffered, running, catalog, InstanceInfos, idx,
                   maxcon, lastComplete, unchanged, scraped>>
    /\ UNCHANGED callVars

\* snapshot returns nil and the loop goes back to ticker.C
Snapshot_Return ==
    /\ alive
    /\ pc = "return"
    /\ pc' = "range"
    /\ running' = running - 1
    /\ lastComplete' = maxcon
    /\ InstanceInfos' = <<>>
    /\ idx' = 1
    /\ UNCHANGED <<alive, tickBuffered, catalog, maxcon, unchanged, scraped>>
    /\ UNCHANGED callVars

\* promhttp.Handler serves /metrics from the registry
Scrape ==
    /\ alive
    /\ scraped' = <<maxcon>>
    /\ UNCHANGED <<alive, tickBuffered, running, pc, catalog, InstanceInfos,
                   idx, maxcon, lastComplete, unchanged>>
    /\ UNCHANGED callVars

Next ==
    \/ Tick
    \/ Snapshot_Reset
    \/ Snapshot_GetRDSInstances
    \/ Snapshot_GetRDSInstancesFail
    \/ Snapshot_Publish
    \/ Snapshot_LoopEmpty
    \/ Snapshot_Return
    \/ Scrape

Spec == Init /\ [][Next]_vars

----------------------------------------------------------------------------
(* Direct calls of the resolution functions on enumerated inputs *)

AltFormula ==
    <<"L", "E", "A", "S", "T", "(", "{", "D", "B", "I", "n", "s", "t", "a", "n", "c", "e", "C", "l", "a", "s", "s", "M", "e", "m", "o", "r", "y", "/", "1", "}", ",", "2", ")">>

EmbeddedFormula ==
    <<"x", "L", "E", "A", "S", "T", "(", "{", "D", "B", "I", "n", "s", "t", "a", "n", "c", "e", "C", "l", "a", "s", "s", "M", "e", "m", "o", "r", "y", "/", "1", "}", ",", "2", ")", "y">>

NoDivisorFormula ==
    <<"L", "E", "A", "S", "T", "(", "{", "D", "B", "I", "n", "s", "t", "a", "n", "c", "e", "C", "l", "a", "s", "s", "M", "e", "m", "o", "r", "y", "/", "}", ",", "5", "0", "0", "0", ")">>

GreatestFormula ==
    <<"G", "R", "E", "A", "T", "E", "S", "T", "(", "{", "l", "o", "g", "(", "D", "B", "I", "n", "s", "t", "a", "n", "c", "e", "C", "l", "a", "s", "s", "M", "e", "m", "o", "r", "y", "/", "8", "0", "5", "3", "0", "6", "3", "6", "8", ")", "*", "4", "5", "}", ",", "{", "l", "o", "g", "(", "D", "B", "I", "n", "s", "t", "a", "n", "c", "e", "C", "l", "a", "s", "s", "M", "e", "m", "o", "r", "y", "/", "8", "1", "8", "7", "2", "8", "1", "4", "0", "8", ")", "*", "1", "0", "0", "0", "}", ")">>

SpecialRaws ==
    { <<>>, LeastFormula, AltFormula, EmbeddedFormula, NoDivisorFormula,
      MySQLFormula, GreatestFormula,
      <<"a", "u", "t", "o">>,
      <<"1", "2", "8", "M", "B">>,
      <<"0", "0", "7">>,
      <<"1", "8", "0", "0">>,
      <<"3", "3", "0", "0">>,
      <<"5", "0", "0", "0">>,
      <<"2", "1", "4", "7", "4", "8", "3", "6", "4", "7">>,
      <<"2", "1", "4", "7", "4", "8", "3", "6", "4", "8">>,
      <<"9", "9", "9", "9", "9", "9", "9", "9", "9", "9">> }

DigitStrings == UNION { [1..n -> Digits] : n \in 1..MaxLiteralLen }

RawInputs == SpecialRaws \cup DigitStrings

ClassInputs ==
    DOMAIN auroraPostgresMaxcon \cup {"db.unknown.size", "db.r6g.large", ""}

InitResolve ==
    /\ InitExporter
    /\ fn = "none"
    /\ rawIn \in RawInputs
    /\ classIn \in ClassInputs
    /\ result = [ret |-> 0, err |-> FALSE]

Call_getMaxConnections ==
    /\ fn = "none"
    /\ fn' = "getMaxConnections"
    /\ result' = getMaxConnections(rawIn, classIn)
    /\ UNCHANGED <<rawIn, classIn>>
    /\ UNCHANGED exporterVars

Call_getDefaultMaxConnections ==
    /\ fn = "none"
    /\ fn' = "getDefaultMaxConnections"
    /\ result' = getDefaultMaxConnections(classIn)
    /\ UNCHANGED <<rawIn, classIn>>
    /\ UNCHANGED exporterVars

Call_GetPostgresMaxConnections ==
    /\ fn = "none"
    /\ fn' = "GetPostgresMaxConnections"
    /\ result' = GetPostgresMaxConnections(rawIn, classIn)
    /\ UNCHANGED <<rawIn, classIn>>
    /\ UNCHANGED exporterVars

Call_GetDefaultPostgresMaxConnections ==
    /\ fn = "none"
    /\ fn' = "GetDefaultPostgresMaxConnections"
    /\ result' = GetDefaultPostgresMaxConnections(classIn)
    /\ UNCHANGED <<rawIn, classIn>>
    /\ UNCHANGED exporterVars

NextResolve ==
    \/ Call_getMaxConnections
    \/ Call_getDefaultMaxConnections
    \/ Call_GetPostgresMaxConnections
    \/ Call_GetDefaultPostgresMaxConnections

SpecResolve == InitResolve /\ [][NextResolve]_vars

----------------------------------------------------------------------------
(* Vocabulary of the properties *)

\* a label value that denotes an integer > 0
DenotesPositive(s) ==
    /\ Len(s) > 0
    /\ \A k \in 1..Len(s) : s[k] \in Digits
    /\ \E k \in 1..Len(s) : s[k] # "0"

AllDigits(s) == Len(s) > 0 /\ \A k \in 1..Len(s) : s[k] \in Digits

\* a digit string without its leading zeros ("0" for a string of zeros)
RECURSIVE StripZeros(_)
StripZeros(s) ==
    IF Len(s) > 1 /\ s[1] = "0" THEN StripZeros(Tail(s)) ELSE s

\* a <= b for digit strings of the same length
RECURSIVE LexLeq(_, _)
LexLeq(a, b) ==
    IF Len(a) = 0 THEN TRUE
    ELSE IF a[1] # b[1] THEN DigitVal[a[1]] < DigitVal[b[1]]
    ELSE LexLeq(Tail(a), Tail(b))

\* the integer a digit string denotes is at most the largest int
FitsInt(s) ==
    LET d == StripZeros(s)
        m == Itoa(MaxInt)
    IN  Len(d) < Len(m) \/ (Len(d) = Len(m) /\ LexLeq(d, m))

SupportedEngines == {"postgres", "aurora-postgresql"}

ResolveCalls == {"getMaxConnections", "GetPostgresMaxConnections"}

DefaultCalls == {"getDefaultMaxConnections", "GetDefaultPostgresMaxConnections"}

TableOf(f) ==
    IF f \in {"getMaxConnections", "getDefaultMaxConnections"}
    THEN auroraPostgresMaxcon ELSE pkgAuroraPostgresMaxcon

MemoryOf(f) ==
    IF f = "getDefaultMaxConnections" THEN MemoryQuarterGB
    ELSE pkgMemoryQuarterGB

\* min(floor(memory_bytes / 9531392), 5000) for a memory of q quarters of a
\* GB, computed in KiB (9531392 = 9308 * 1024)
FormulaLimit(q) ==
    LET v == (q * 256 * 1024) \div (9531392 \div 1024)
    IN  IF v < 5000 THEN v ELSE 5000

Abs(x) == IF x < 0 THEN 0 - x ELSE x

----------------------------------------------------------------------------
(* Properties *)

\* C1: when the publish loop of a cycle is over, every instance of the
\* catalog whose resolved limit is > 0 is published, whatever other
\* instance of the list was skipped for a failed resolution or a limit of 0.
C1_SkippedAlone ==
    pc = "return" =>
        \A i \in 1..Len(InstanceInfos) :
            DenotesPositive(InstanceInfos[i].MaxConnections)
                => Labels(InstanceInfos[i]) \in maxcon

\* C2: a scrape served while snapshot runs returns the complete label set
\* of the previous cycle or the complete label set of the current cycle.
C2_AtomicReplace ==
    (pc = "return" /\ scraped # NoScrape)
        => (scraped[1] = lastComplete \/ scraped[1] = maxcon)

\* C3: no label set is published for an instance whose engine is not in
\* the supported set.
C3_UnsupportedEngineNeverPublished ==
    \A l \in maxcon : \A i \in 1..Len(catalog) :
        catalog[i].DBInstanceIdentifier = l.instance_identifier
            => catalog[i].Engine \in SupportedEngines

\* C4: in every reachable state every published label set has a
\* max_connections label that denotes an integer > 0.
C4_PublishedLimitPositive ==
    \A l \in maxcon : DenotesPositive(l.max_connections)

C4_Witness ==
    /\ pc = "return"
    /\ maxcon # {}
    /\ \E i \in 1..Len(InstanceInfos) :
           InstanceInfos[i].MaxConnections = <<"0">>

\* C5: for a raw value that matches the LEAST formula pattern the result is
\* the tabulated limit and no error when the instance class is a key of the
\* table, and 0 with an error when it is not.
C5_FormulaResolvesFromTable ==
    (fn \in ResolveCalls
        /\ rawIn \in {LeastFormula, AltFormula, EmbeddedFormula})
    => IF classIn \in DOMAIN TableOf(fn)
       THEN result = [ret |-> TableOf(fn)[classIn], err |-> FALSE]
       ELSE result = [ret |-> 0, err |-> TRUE]

C5_Witness ==
    /\ fn = "getMaxConnections"
    /\ rawIn = LeastFormula
    /\ classIn = "db.r5.large"
    /\ result = [ret |-> 1800, err |-> FALSE]

\* C6 as stated: for every raw value made of decimal digits only the result
\* is the integer the digits denote and no error, for every instance class.
C6_LiteralVerbatim ==
    (fn \in ResolveCalls /\ AllDigits(rawIn))
    => (~result.err /\ Itoa(result.ret) = StripZeros(rawIn))

\* C6 amended: for every raw value made of decimal digits only the result
\* carries no error and is the integer the digits denote when that integer
\* fits in an int, and the largest int otherwise, for every instance class.
C6_LiteralVerbatimInRange ==
    (fn \in ResolveCalls /\ AllDigits(rawIn))
    => /\ ~result.err
       /\ IF FitsInt(rawIn)
          THEN Itoa(result.ret) = StripZeros(rawIn)
          ELSE result.ret = MaxInt

C6_Witness ==
    /\ fn = "getMaxConnections"
    /\ rawIn = <<"3", "3", "0", "0">>
    /\ classIn = "db.r5.xlarge"
    /\ result = [ret |-> 3300, err |-> FALSE]

\* C7: when snapshot is about to return, the published set holds only
\* label sets this cycle produced, and it equals the set the previous
\* cycle left when the catalog is the same as in the previous cycle.
C7_FullReplace ==
    pc = "return" =>
        /\ \A l \in maxcon :
               \E i \in 1..Len(InstanceInfos) : l = Labels(InstanceInfos[i])
        /\ unchanged => maxcon = lastComplete

C7_Witness ==
    /\ pc = "return"
    /\ maxcon # {}
    /\ \E l \in lastComplete : l \notin maxcon

\* C8 as stated: every value of the limit table equals
\* min(floor(memory_bytes / 9531392), 5000) for the memory size written
\* next to the entry.
C8_TableIsFormula ==
    (fn \in DefaultCalls /\ classIn \in DOMAIN TableOf(fn))
    => result.ret = FormulaLimit(MemoryOf(fn)[classIn])

\* C8 amended: a value of the limit table equals
\* min(floor(memory_bytes / 9531392), 5000) when that minimum is the cap
\* 5000; for the smaller classes it is a rounded figure below 5000 that
\* differs from floor(memory_bytes / 9531392) by less than 12 percent.
C8_TableNearFormula ==
    (fn \in DefaultCalls /\ classIn \in DOMAIN TableOf(fn))
    => LET f == FormulaLimit(MemoryOf(fn)[classIn]) IN
       /\ ~result.err
       /\ IF f = 5000
          THEN result.ret = 5000
          ELSE /\ result.ret > 0
               /\ result.ret < 5000
               /\ Abs(result.ret - f) * 100 < 12 * f

C8_Witness ==
    /\ fn = "getDefaultMaxConnections"
    /\ classIn = "db.r5.large"
    /\ result.ret = 1800
    /\ FormulaLimit(MemoryQuarterGB[classIn]) = 1802

\* C9: an execution of snapshot starts only when none is in progress.
C9_NoOverlap == [][running' > running => running = 0]_vars

C9_Witness ==
    /\ running = 1
    /\ pc = "loop"
    /\ tickBuffered

\* C10: an instance without parameter group is recorded with the limit of
\* the empty raw value, "0", whatever the instances before it in the list.
C10_OwnParameterGroupsOnly ==
    pc \in {"loop", "return"} =>
        \A i \in 1..Len(catalog) :
            catalog[i].DBParameterGroups = <<>>
                => InstanceInfos[i].MaxConnections = <<"0">>

====
